---- MODULE Spec2Model ----
(***************************************************************************)
(* InkFlow (src/gestures.js): the reader's page virtualisation             *)
(* (VirtualScroll over PdfRenderer, driven by Reader) and the pointer      *)
(* gesture recogniser (GestureEngine).                                     *)
(*                                                                         *)
(* SpecScroll  : one VirtualScroll; IntersectionObserver entries and       *)
(*               render continuations, renders that may fail.              *)
(* SpecBuffer  : the same when every render succeeds.                      *)
(* SpecSession : a reading session; the same with mode toggles and close.  *)
(* SpecReader  : the Reader's page bookkeeping; observer reports for the   *)
(*               positions the program scrolls to, the progress track,     *)
(*               mode toggles, the restore and save timers, close.         *)
(* SpecGesture : one GestureEngine; pointer events, the long-press timer   *)
(*               and momentum frames.                                      *)
(* SpecTouch   : the same engine under up to three contacts.               *)
(* SpecRebind  : SpecGesture with GestureEngine.destroy().                 *)
(* SpecView    : the Reader's zoom and pan under the gesture callbacks.    *)
(* SpecChrome  : the Reader's chrome; gesture callbacks and the hide timer.*)
(* SpecOpen    : Reader.open, which may fail, and the session it starts.   *)
(* SpecReopen  : SpecOpen with close() during open() and a second document.*)
(* SpecSlots   : one VirtualScroll and the set of slots that intersect.    *)
(* SpecCanvas  : the same with the canvases of the slots and their delayed *)
(*               removal.                                                  *)
(* SpecFling   : a horizontal Reader driven by its GestureEngine.          *)
(***************************************************************************)
EXTENDS Integers, Sequences, FiniteSets, TLC

(* ---------------------------------------------------------------------- *)
(* Bounds of the model                                                     *)
(* ---------------------------------------------------------------------- *)
\* number of pages of the open document (PdfRenderer.totalPages)
NumPages == 6
\* renderPage calls in flight at once (a new visibility entry that would
\* start one more is not delivered before one of them has finished), in
\* SpecScroll / in SpecSession
MaxInFlight == 1
SessionInFlight == 2
\* mode toggles in one session
MaxToggles == 1
\* render tasks that fail (reject with an error) in one session
MaxFailures == 1

\* slots that intersect the observer's root at once (six pages of half a
\* viewport height fit the three viewport heights of the root), and removal
\* timeouts pending on one canvas, in SpecSlots and SpecCanvas
MaxVisible == 6
MaxRemovals == 1

\* pages of the document opened in SpecSession / in SpecReader
SessionPages == 3
ReaderPages == 4
\* mode toggles and presses on the progress track in one session of SpecReader
MaxInputs == 3
\* the reader's timers are advanced in steps of ReaderTickMs
ReaderTickMs == 500
\* pages of the document opened in SpecView and SpecChrome / of the first document
\* opened in SpecOpen and SpecReopen; open() calls in SpecReopen
ViewPages == 3
OpenPages == 3
MaxOpens == 2
\* the chrome timer is advanced in steps of UiTickMs
UiTickMs == 1750

\* pointerdown events in one session
MaxDowns == 2
\* the clock advances in steps of TickMs, at most MaxTicks times
TickMs == 300
MaxTicks == 2
\* pointermove events of active pointers handled in one contact sequence
\* (from the first pointer down to the last pointer up)
MaxMoves == 1
\* velocities are kept as integers, in units of 1 / VelUnit pixel per 16 ms
\* frame, rounded toward zero
VelUnit == 10

(* ---------------------------------------------------------------------- *)
(* Program constants                                                       *)
(* ---------------------------------------------------------------------- *)
\* VirtualScroll._maxBuffered
maxBuffered == 5
\* VirtualScroll._evictPage: "Keep +-2 pages always"
KeepRadius == 2
\* VirtualScroll._evictFarPages: maxDist > 3
FarDist == 3
\* Reader._minScale, Reader._maxScale
minScale == 1
maxScale == 5
\* Reader._scale is kept in hundredths (1 is ScaleUnit, 1.05 is 105) and
\* _translateX, _translateY in 1 / TransUnit px, so that (scale - 1) * vw / 2
\* and the offsets _zoomTo computes for its target 2.5 are whole numbers
ScaleUnit == 100
TransUnit == 2 * ScaleUnit
\* the scale 1.05 the gesture callbacks compare with, and the scale 2.5 a
\* double tap zooms to
ZOOMED == 105
DOUBLE_TAP_SCALE == 250
\* _scheduleUIHide(delay = 3500)
UI_HIDE_MS == 3500
\* viewport.clientWidth, viewport.clientHeight in px
ViewW == 100
ViewH == 160
\* Reader._onPageChanged: the debounce of saveProgress; Reader._toggleMode:
\* the delay of the restore timer
SAVE_MS == 1500
RESTORE_MS == 100
\* GestureEngine: TAP_GAP_MS, TAP_DIST_PX, _LONG_PRESS_MS
TAP_GAP == 300
TAP_DIST == 40
LONG_PRESS_MS == 500
\* GestureEngine._onUp: moved = dx > 10 || dy > 10
TapSlop == 10
\* GestureEngine._onMove: long press is cancelled beyond 8 px
LongPressSlop == 8
\* GestureEngine._onUp: speed > 1.5;  _startMomentum: MIN_VEL = 0.3
\* (in units of 1 / VelUnit pixel per frame)
MinSpeed == (3 * VelUnit) \div 2
MIN_VEL == (3 * VelUnit) \div 10

Pages == 1..NumPages
\* pointer ids the input source uses
PointerIds == {1, 2}
\* ... and of a device that reports a third contact
TouchIds == {1, 2, 3}
\* pointerdown events in one session of SpecTouch: one for each of them
MaxTouches == Cardinality(TouchIds)
\* client positions of pointer events
Points == {<<0, 0>>, <<10, 10>>, <<50, 0>>}
VSIds == 1..((IF MaxToggles > MaxInputs THEN MaxToggles ELSE MaxInputs) + 1)
\* |mid - viewMid| of an intersecting slot, in tenths of the viewport extent:
\* the slot is centred, or its midpoint is 0.6 viewport extents from the centre
Offsets == {0, 6}

Abs(n) == IF n < 0 THEN -n ELSE n

VARIABLES
    mode,        \* Reader.mode
    closed,      \* Reader.close() has run and no layout was made since
    vs,          \* the VirtualScroll objects made so far: _rendered, _pending
    currentPage, \* _currentPage of the live VirtualScroll (that of a destroyed
                 \* one is never read again and is not kept)
    calls,       \* PdfRenderer.renderPage invocations that have not returned
    rec,         \* PdfRenderer._rendered: page -> the VirtualScroll whose call
                 \* made the recorded render task while that task runs; 0 when
                 \* there is no record or the recorded task has settled
                 \* (cancel() on a settled task does nothing)
    toggles,     \* layouts made after the first one (mode toggles; in
                 \* SpecReopen, documents laid out after the first)
    failures,    \* failed render tasks so far
    lastEvict,   \* which caller of _evictPage removed a page in the last step
    totalPages,  \* PdfRenderer.totalPages of the open document
    reader       \* the Reader object: currentPage, zoom / pan state, its
                 \* pending timers, the scroll position it last set, and the
                 \* saveProgress calls of the last step

scrollVars == <<mode, closed, vs, currentPage, calls, rec, toggles, failures,
                lastEvict, totalPages, reader>>

VARIABLES
    engine,      \* the GestureEngine object (its fields, and whether its
                 \* timeout / animation frame is still due in the browser)
    now,         \* the clock: performance.now(), the timeStamp of events
    envDown,     \* input source: ids with a pointerdown not yet followed by a
                 \* pointerup or pointercancel
    emitted,     \* the callbacks invoked by the last handler, in order
    lastEvent,   \* the pointer event the last handler acted on
    tapHist,     \* the latest onTap not yet answered by an onDoubleTap
    afterDouble, \* onDoubleTap was emitted and no tap was released since
    moves,       \* pointermove events handled in this contact sequence
    downs,       \* pointerdown events so far
    hist         \* history: pressed   - onLongPress was emitted in the current
                 \*                      contact sequence (the latest one)
                 \*          stopped   - the last handler was _onDown or
                 \*                      _onCancel and found a momentum frame due
                 \*          destroyed - destroy() has been called on the engine

gestureVars == <<engine, now, envDown, emitted, lastEvent, tapHist, afterDouble,
                 moves, downs, hist>>

vars == <<scrollVars, gestureVars>>

\* Reader.virtualScroll: the VirtualScroll made by the latest _initLayout
liveVS == toggles + 1

\* new VirtualScroll(...): empty sets (and _currentPage = 1)
NewVS == [rendered |-> {}, pending |-> {}, destroyed |-> FALSE]

\* the part of the program state the VirtualScroll / PdfRenderer methods touch
World == [vs |-> vs, cur |-> currentPage, calls |-> calls, rec |-> rec,
          ev |-> "none", reader |-> [reader EXCEPT !.saves = <<>>, !.cbk = "none"]]

(* ---------------------------------------------------------------------- *)
(* PdfRenderer                                                             *)
(* ---------------------------------------------------------------------- *)
\* the calls whose render task is the one recorded for page p and still runs
RecordedCalls(w, p) ==
    {c \in w.calls : c.page = p /\ c.stage = "render" /\ c.vs = w.rec[p]}

\* PdfRenderer.cancelPage: cancel the recorded task (a cancelled task rejects
\* with RenderingCancelledException and renderPage returns without onDone),
\* then delete the record
cancelPage(w, p) ==
    [w EXCEPT !.calls = @ \ RecordedCalls(w, p), !.rec[p] = 0]

\* PdfRenderer.renderPage up to its first await (pdfDoc.getPage)
renderPage(w, v, p) ==
    LET w1 == cancelPage(w, p) IN
    [w1 EXCEPT !.calls = @ \cup {[page |-> p, vs |-> v, stage |-> "getPage"]}]

\* PdfRenderer.cancelAll
cancelAll(w) ==
    [w EXCEPT !.calls = {c \in @ : ~(c.stage = "render" /\ c.vs = w.rec[c.page])},
              !.rec = [p \in Pages |-> 0]]

(* ---------------------------------------------------------------------- *)
(* Reader: page bookkeeping                                                *)
(* ---------------------------------------------------------------------- *)
\* new Reader(), after open() has laid out a document from page 1.
\* The chrome is visible and _uiTimer is as the constructor leaves it; the
\* specification that follows the chrome arms it as open() does.
NewReader ==
    [currentPage   |-> 1,
     scale         |-> ScaleUnit, translateX |-> 0, translateY |-> 0,
     uiVisible     |-> TRUE,
     uiTimer       |-> -1,    \* ms left on the timeout _uiTimer names; -1: none pending
     idle          |-> 0,     \* history: ms since the last gesture callback, up to UI_HIDE_MS
     cbk           |-> "none",\* the callback the last step ran
     stage         |-> "open",\* where open() stands: "getFile", "load" (at the await
                              \* of that name), "open" (returned), "failed" (its
                              \* catch has run)
     anim          |-> {},    \* pending timeouts that drop the classes 'entering' /
                              \* 'exiting' of the reader element
     toast         |-> FALSE, \* Toast.show('Failed to open comic') has run
     laidOut       |-> TRUE,  \* this.virtualScroll is not null
     closedAt      |-> "none",\* history: the await of open() at which close() ran
     opens         |-> 1,     \* history: open() calls so far
     zoomFrom      |-> 0,     \* history: the page the horizontal view rested on
                              \* at scale 1 when the pinch or double-tap cycle
                              \* under way began (0: none under way)
     visible       |-> {},    \* the slots of the container the observer last reported
                              \* as intersecting (followed in SpecSlots, SpecCanvas)
     canvas        |-> {},    \* the slots that hold a canvas.page-canvas (SpecCanvas)
     removals      |-> [p \in Pages |-> 0],
                              \* pending `setTimeout(() => canvas.remove(), 200)` on the
                              \* canvas of that slot (SpecCanvas)
     saveTimers    |-> <<>>,  \* pending timeouts of _onPageChanged, oldest first
     saveHandle    |-> FALSE, \* _saveTimer names the newest of them
     restoreTimers |-> {},    \* pending timeouts of _toggleMode
     view          |-> 1,     \* the page whose slot is at the start of the viewport
     obsView       |-> 0,     \* the scroll position the observer last reported for
                              \* (0: nothing reported to the live VirtualScroll yet)
     saves         |-> <<>>,  \* DB.saveProgress calls of the last step (currentPage)
     toggledAt     |-> 0,     \* history: currentPage at the first _toggleMode (0: none)
     scrubs        |-> 0,
     navigated     |-> FALSE] \* history: the progress track was used after it

\* clearTimeout(this._saveTimer)
clearSaveTimer(r) ==
    IF r.saveHandle
    THEN [r EXCEPT !.saveTimers = SubSeq(@, 1, Len(@) - 1), !.saveHandle = FALSE]
    ELSE r

\* _onPageChanged without clearTimeout(this._saveTimer)
onPageChangedNoClear(r, page) ==
    [r EXCEPT !.currentPage = page,
              !.saveTimers = Append(@, [left |-> SAVE_MS, page |-> page]),
              !.saveHandle = TRUE]

\* Reader._onPageChanged
onPageChanged(r, page) ==
    LET r1 == clearSaveTimer(r) IN
    [r1 EXCEPT !.currentPage = page,
               !.saveTimers = Append(@, [left |-> SAVE_MS, page |-> page]),
               !.saveHandle = TRUE]

(* ---------------------------------------------------------------------- *)
(* VirtualScroll                                                           *)
(* ---------------------------------------------------------------------- *)
\* _evictPage with the safety buffer one page too narrow (dist < 2)
evictPageNarrow(w, v, p, by) ==
    IF p \notin w.vs[v].rendered THEN w
    ELSE IF Abs(p - w.cur) < KeepRadius THEN w
    ELSE LET w1 == cancelPage(w, p) IN
         [w1 EXCEPT !.vs[v].rendered = @ \ {p}, !.ev = by]

\* VirtualScroll._evictPage
evictPage(w, v, p, by) ==
    IF p \notin w.vs[v].rendered THEN w
    ELSE IF Abs(p - w.cur) <= KeepRadius THEN w
    ELSE LET w1 == cancelPage(w, p) IN
         [w1 EXCEPT !.vs[v].rendered = @ \ {p}, !.ev = by]

\* the pages the loop of _evictFarPages can end on: a rendered page at the
\* maximum distance from nearPage (the first such page in the Set's insertion
\* order, which the model does not track), or -1 when every distance is 0
Farthest(w, v, nearPage) ==
    LET R == w.vs[v].rendered
        maxDist == IF R = {} THEN 0
                   ELSE CHOOSE d \in 0..NumPages :
                          /\ \E p \in R : Abs(p - nearPage) = d
                          /\ \A p \in R : Abs(p - nearPage) <= d
    IN IF maxDist = 0 THEN {-1}
       ELSE {p \in R : Abs(p - nearPage) = maxDist}

\* _evictFarPages evicting from distance 3 on (maxDist >= 3)
evictFarPagesNear(w, v, nearPage, farthest) ==
    IF Cardinality(w.vs[v].rendered) < maxBuffered THEN w
    ELSE IF farthest > 0 /\ Abs(farthest - nearPage) >= FarDist
         THEN evictPage(w, v, farthest, "guard")
         ELSE w

\* VirtualScroll._evictFarPages, with the loop's result given as `farthest`
evictFarPages(w, v, nearPage, farthest) ==
    IF Cardinality(w.vs[v].rendered) < maxBuffered THEN w
    ELSE IF farthest > 0 /\ Abs(farthest - nearPage) > FarDist
         THEN evictPage(w, v, farthest, "guard")
         ELSE w

\* VirtualScroll._renderSlot up to the await in renderPage
renderSlot(w, v, p, farthest) ==
    renderPage(evictFarPages(w, v, p, farthest), v, p)

\* VirtualScroll._scheduleRender
scheduleRender(w, v, p, farthest) ==
    IF p \in w.vs[v].rendered \/ p \in w.vs[v].pending THEN w
    ELSE renderSlot([w EXCEPT !.vs[v].pending = @ \cup {p}], v, p, farthest)

\* the "current page" test of _onIntersect: |mid - viewMid| < 0.6 * extent
NearCentre(off) == off < 6

\* one entry of VirtualScroll._onIntersect (the callback loops over its
\* entries; a batch of k entries acts as k calls with one entry each)
onIntersectEntry(w, v, p, isIntersecting, off, farthest) ==
    IF isIntersecting
    THEN LET w1 == scheduleRender(w, v, p, farthest) IN
         IF NearCentre(off) /\ w1.cur # p
         THEN [w1 EXCEPT !.cur = p, !.reader = onPageChanged(@, p)]
         ELSE w1
    ELSE evictPage(w, v, p, "observer")

\* VirtualScroll.destroy
destroyVS(w, v) ==
    [w EXCEPT !.vs[v] = [rendered |-> {}, pending |-> {}, destroyed |-> TRUE]]

\* the callback _renderSlot hands to renderPage (onDone)
onDone(w, v, p) ==
    [w EXCEPT !.vs[v].rendered = @ \cup {p}, !.vs[v].pending = @ \ {p}]

\* the render task of call c settles (resolves or rejects)
settle(w, c) ==
    [w EXCEPT !.calls = @ \ {c},
              !.rec[c.page] = IF @ = c.vs THEN 0 ELSE @]

\* the catch block of _renderSlot
renderSlotCatch(w, v, p) ==
    [w EXCEPT !.vs[v].pending = @ \ {p}]

Commit(w) ==
    /\ vs' = w.vs
    /\ currentPage' = w.cur
    /\ calls' = w.calls
    /\ rec' = w.rec
    /\ lastEvict' = w.ev
    /\ reader' = w.reader

(* ---------------------------------------------------------------------- *)
(* Actions of the page virtualisation                                      *)
(* ---------------------------------------------------------------------- *)
\* a session opened in mode m (open() takes the mode from the saved progress,
\* 'vertical' when there is none)
InitLayout(m, r) ==
    /\ mode = m
    /\ closed = FALSE
    /\ vs = [v \in VSIds |-> NewVS]
    /\ currentPage = 1
    /\ calls = {}
    /\ rec = [p \in Pages |-> 0]
    /\ toggles = 0
    /\ failures = 0
    /\ lastEvict = "none"
    /\ reader = r

InitScroll == InitLayout("vertical", NewReader)

\* the IntersectionObserver of the live VirtualScroll reports one entry
OnIntersectUpTo(limit) ==
    /\ ~closed
    /\ \E p \in 1..totalPages, isIntersecting \in BOOLEAN, off \in Offsets :
       \E farthest \in Farthest(World, liveVS, p) :
         LET w == onIntersectEntry(World, liveVS, p, isIntersecting, off, farthest) IN
         /\ isIntersecting \/ off = 0
         /\ Cardinality(w.calls) <= limit
         /\ Commit(w)
    /\ UNCHANGED <<mode, closed, toggles, failures, totalPages>>
    /\ UNCHANGED gestureVars

OnIntersect == OnIntersectUpTo(MaxInFlight)

\* the same callback in SpecSession
OnIntersectSession == OnIntersectUpTo(SessionInFlight)

\* renderPage resumes after `await this.pdfDoc.getPage`: the render task is
\* created and recorded
GetPageDone ==
    /\ \E c \in calls :
         /\ c.stage = "getPage"
         /\ calls' = (calls \ {c}) \cup {[c EXCEPT !.stage = "render"]}
         /\ rec' = [rec EXCEPT ![c.page] = c.vs]
    /\ lastEvict' = "none"
    /\ reader' = [reader EXCEPT !.saves = <<>>]
    /\ UNCHANGED <<mode, closed, vs, currentPage, toggles, failures, totalPages>>
    /\ UNCHANGED gestureVars

\* getPage rejects: renderPage throws, the catch of _renderSlot runs
GetPageFail ==
    /\ \E c \in calls :
         /\ c.stage = "getPage"
         /\ Commit(renderSlotCatch([World EXCEPT !.calls = @ \ {c}], c.vs, c.page))
    /\ UNCHANGED <<mode, closed, toggles, failures, totalPages>>
    /\ UNCHANGED gestureVars

\* renderTask.promise resolves: renderPage calls onDone
RenderDone ==
    /\ \E c \in calls :
         /\ c.stage = "render"
         /\ Commit(onDone(settle(World, c), c.vs, c.page))
    /\ UNCHANGED <<mode, closed, toggles, failures, totalPages>>
    /\ UNCHANGED gestureVars

\* the slot side of one _onIntersect entry that took the VirtualScroll from
\* w0 to w1.  _evictPage, for a page it removes from the rendered set: a
\* removal timeout on the slot's canvas, if there is one.  _renderSlot, for
\* a page it starts: the slot's canvas is reused, or a new one is made, which
\* no timeout set before refers to.
slotEffects(w0, w1, v) ==
    LET evicted == w0.vs[v].rendered \ w1.vs[v].rendered
        started == w1.vs[v].pending \ w0.vs[v].pending
    IN [w1 EXCEPT !.reader.removals =
            [p \in Pages |-> IF p \in evicted /\ p \in w0.reader.canvas THEN @[p] + 1
                             ELSE IF p \in started /\ p \notin w0.reader.canvas THEN 0
                             ELSE @[p]]]

\* a set of slots next to each other
Adjacent(S) == \A p \in S, q \in S : \A i \in p..q : i \in S

\* the observer reports one slot whose isIntersecting has changed; the slots
\* that intersect its root are next to each other, MaxVisible at most.  The
\* canvases of the slots are followed when withCanvas is set.
ObserveChange(withCanvas) ==
    /\ ~closed
    /\ \E p \in 1..totalPages, off \in Offsets :
       \E farthest \in Farthest(World, liveVS, p) :
         LET isIntersecting == p \notin reader.visible
             seen == IF isIntersecting THEN reader.visible \cup {p}
                     ELSE reader.visible \ {p}
             w1 == onIntersectEntry(World, liveVS, p, isIntersecting, off, farthest)
             w == IF withCanvas THEN slotEffects(World, w1, liveVS) ELSE w1
         IN /\ isIntersecting \/ off = 0
            /\ Adjacent(seen)
            /\ Cardinality(seen) <= MaxVisible
            /\ Cardinality(w.calls) <= MaxInFlight
            /\ \A q \in Pages : w.reader.removals[q] <= MaxRemovals
            /\ Commit([w EXCEPT !.reader.visible = seen])
    /\ UNCHANGED <<mode, closed, toggles, failures, totalPages>>
    /\ UNCHANGED gestureVars

\* _onIntersect in SpecCanvas / in SpecSlots
ObserveSlot == ObserveChange(TRUE)
ObserveVisible == ObserveChange(FALSE)

\* renderTask.promise resolves: onDone appends the canvas unless the slot
\* contains it
RenderDoneSlot ==
    /\ \E c \in calls :
         /\ c.stage = "render"
         /\ Commit([onDone(settle(World, c), c.vs, c.page)
                       EXCEPT !.reader.canvas = @ \cup {c.page}])
    /\ UNCHANGED <<mode, closed, toggles, failures, totalPages>>
    /\ UNCHANGED gestureVars

\* a timeout of _evictPage runs: canvas.remove()
RemoveTimeout ==
    /\ \E p \in Pages :
         /\ reader.removals[p] > 0
         /\ Commit([World EXCEPT !.reader.removals[p] = @ - 1,
                                 !.reader.canvas = @ \ {p}])
    /\ UNCHANGED <<mode, closed, toggles, failures, totalPages>>
    /\ UNCHANGED gestureVars

\* renderTask.promise rejects with an error other than a cancellation:
\* renderPage logs it and returns normally
RenderFail ==
    /\ failures < MaxFailures
    /\ \E c \in calls :
         /\ c.stage = "render"
         /\ Commit(settle(World, c))
    /\ failures' = failures + 1
    /\ UNCHANGED <<mode, closed, toggles, totalPages>>
    /\ UNCHANGED gestureVars

\* a layout whose VirtualScroll starts before its first slot
initLayoutFromZero(w, v) ==
    [destroyVS(w, v) EXCEPT !.vs[v + 1] = NewVS, !.cur = 0,
                            !.reader.scale = ScaleUnit,
                            !.reader.translateX = 0, !.reader.translateY = 0,
                            !.reader.view = 1, !.reader.obsView = 0]

\* Reader._initLayout: destroys the VirtualScroll, resets the transform and
\* makes a new VirtualScroll over the same PdfRenderer; the new layout starts
\* at its first slot
initLayout(w, v) ==
    [destroyVS(w, v) EXCEPT !.vs[v + 1] = NewVS, !.cur = 1,
                            !.reader.scale = ScaleUnit,
                            !.reader.translateX = 0, !.reader.translateY = 0,
                            !.reader.view = 1, !.reader.obsView = 0]

\* Reader._toggleMode after the mode has been flipped (the GestureEngine made
\* by _initGestures is the subject of SpecGesture)
toggleMode(w, v) ==
    LET savedPage == w.reader.currentPage IN
    [initLayout(w, v) EXCEPT !.reader.restoreTimers =
                                 @ \cup {[left |-> RESTORE_MS, page |-> savedPage]},
                             !.reader.toggledAt = IF @ = 0 THEN savedPage ELSE @]

\* VirtualScroll.scrollToPage: scrollIntoView of the slot, if there is one
scrollToPage(w, v, page) ==
    IF w.vs[v].destroyed \/ page \notin 1..totalPages THEN w
    ELSE [w EXCEPT !.reader.view = page]

\* Reader._jumpToHPage
jumpToHPage(w, page) ==
    LET p == IF page < 1 THEN 1 ELSE IF page > totalPages THEN totalPages ELSE page
    IN [w EXCEPT !.reader.translateX = -(p - 1) * ViewW * TransUnit,
                 !.reader.view = p]

\* Reader.close after virtualScroll.destroy(): renderer.destroy(), the
\* 'exiting' timeout is set, _uiTimer and _saveTimer are cleared and the
\* progress is saved
closeRest(w) ==
    LET w1 == cancelAll(w)
        r1 == clearSaveTimer(w1.reader)
    IN [w1 EXCEPT !.reader = [r1 EXCEPT !.saves = <<r1.currentPage>>,
                                        !.uiTimer = -1,
                                        !.anim = @ \cup {"exiting"}]]

\* Reader.close
closeReader(w, v) == closeRest(destroyVS(w, v))

\* Reader.close when open() has not returned: virtualScroll is null during
\* the first open and the destroyed one of the last session after it
closeOpening(w) ==
    IF w.reader.laidOut THEN closeReader(w, liveVS) ELSE closeRest(w)

\* the catch of Reader.open: the toast, then App.closeReader()
openFailed(w) ==
    [closeOpening(w) EXCEPT !.reader.toast = TRUE, !.reader.stage = "failed"]

\* the mode button, at most `limit` times in one session
ToggleTo(limit) ==
    /\ ~closed
    /\ toggles < limit
    /\ mode' = IF mode = "vertical" THEN "horizontal" ELSE "vertical"
    /\ toggles' = toggles + 1
    /\ Commit(toggleMode(World, liveVS))
    /\ UNCHANGED <<closed, failures, totalPages>>
    /\ UNCHANGED gestureVars

\* Reader._toggleMode
ToggleMode == ToggleTo(MaxToggles)

\* Reader._toggleMode, in SpecReader: what the input budget leaves
ToggleModeBack == ToggleTo(MaxInputs - reader.scrubs)

\* Reader.close: virtualScroll.destroy(), renderer.destroy(), the save timer
\* is cleared and the progress saved
Close ==
    /\ ~closed
    /\ closed' = TRUE
    /\ Commit(closeReader(World, liveVS))
    /\ UNCHANGED <<mode, toggles, failures, totalPages>>
    /\ UNCHANGED gestureVars

\* the slots that intersect the observer's root (the viewport widened by one
\* viewport extent on both sides) when page `view` is at the start of the
\* viewport, with placeholder slots: 1.3 viewport heights each in vertical
\* mode (one neighbour on each side); one viewport width each in horizontal
\* mode, where the second neighbour is edge-adjacent to the root
Reach(m) == IF m = "vertical" THEN 1 ELSE 2

Intersects(p, view) == Abs(p - view) <= Reach(mode)

\* the slots the observer has an entry for: all of them the first time, later
\* those whose isIntersecting changed since its last report
EntryDue(p) ==
    \/ reader.obsView = 0
    \/ Intersects(p, reader.obsView) # Intersects(p, reader.view)

\* VirtualScroll._onIntersect on the batch of entries due for the slots from
\* p on, in slot order: the worlds it can end in
RECURSIVE onIntersectFrom(_, _)
onIntersectFrom(w, p) ==
    IF p > totalPages THEN {w}
    ELSE IF ~EntryDue(p) THEN onIntersectFrom(w, p + 1)
    ELSE UNION {onIntersectFrom(
                    onIntersectEntry(w, liveVS, p, Intersects(p, reader.view),
                                     IF p = reader.view THEN 0 ELSE 6, farthest),
                    p + 1) : farthest \in Farthest(w, liveVS, p)}

\* the observer reports for the scroll position the program set (the user
\* does not scroll)
Observe ==
    /\ ~closed
    /\ \E p \in 1..totalPages : EntryDue(p)
    /\ \E w \in onIntersectFrom(World, 1) :
         Commit([w EXCEPT !.reader.obsView = reader.view])
    /\ UNCHANGED <<mode, closed, toggles, failures, totalPages>>
    /\ UNCHANGED gestureVars

\* Reader._startScrub / _doScrub: the progress track is pressed at `page`
Scrub ==
    /\ ~closed
    /\ \E page \in 1..totalPages :
         /\ page # reader.currentPage
         /\ toggles + reader.scrubs < MaxInputs
         /\ LET w == [World EXCEPT !.reader.navigated = (reader.toggledAt # 0),
                                   !.reader.scrubs = @ + 1] IN
            Commit(IF mode = "vertical" THEN scrollToPage(w, liveVS, page)
                   ELSE jumpToHPage(w, page))
    /\ UNCHANGED <<mode, closed, toggles, failures, totalPages>>
    /\ UNCHANGED gestureVars

\* the timeout set by _toggleMode runs
RestoreTimeout ==
    /\ \E t \in reader.restoreTimers :
         /\ t.left = 0
         /\ LET w == [World EXCEPT !.reader.restoreTimers = @ \ {t}] IN
            Commit(IF mode = "vertical" THEN scrollToPage(w, liveVS, t.page)
                   ELSE jumpToHPage(w, t.page))
    /\ UNCHANGED <<mode, closed, toggles, failures, totalPages>>
    /\ UNCHANGED gestureVars

\* a timeout set by _onPageChanged runs: DB.saveProgress with its page
SaveTimeout ==
    /\ \E i \in DOMAIN reader.saveTimers :
         /\ reader.saveTimers[i].left = 0
         /\ Commit([World EXCEPT
                !.reader.saveTimers = SubSeq(@, 1, i - 1) \o SubSeq(@, i + 1, Len(@)),
                !.reader.saveHandle = IF i = Len(reader.saveTimers) THEN FALSE ELSE @,
                !.reader.saves = <<reader.saveTimers[i].page>>])
    /\ UNCHANGED <<mode, closed, toggles, failures, totalPages>>
    /\ UNCHANGED gestureVars

\* ReaderTickMs pass; a timeout that is due runs before more time passes
Elapse ==
    LET less(t) == [t EXCEPT !.left = IF @ > ReaderTickMs THEN @ - ReaderTickMs ELSE 0]
    IN /\ reader.restoreTimers # {} \/ reader.saveTimers # <<>>
       /\ \A t \in reader.restoreTimers : t.left > 0
       /\ \A i \in DOMAIN reader.saveTimers : reader.saveTimers[i].left > 0
       /\ Commit([World EXCEPT
              !.reader.restoreTimers = {less(t) : t \in @},
              !.reader.saveTimers = [i \in DOMAIN @ |-> less(@[i])]])
       /\ UNCHANGED <<mode, closed, toggles, failures, totalPages>>
       /\ UNCHANGED gestureVars

(* ---------------------------------------------------------------------- *)
(* Reader: zoom, pan and chrome (the callbacks given to the GestureEngine)  *)
(* ---------------------------------------------------------------------- *)
\* clamp(v, lo, hi)
clamp(v, lo, hi) == IF v < lo THEN lo ELSE IF v > hi THEN hi ELSE v

\* a clamp of the horizontal translate only
clampPanXOnly(r) ==
    IF r.scale <= ScaleUnit
    THEN [r EXCEPT !.translateX = 0, !.translateY = 0]
    ELSE LET maxX == ((r.scale - ScaleUnit) * ViewW * TransUnit) \div (2 * ScaleUnit)
         IN [r EXCEPT !.translateX = clamp(@, -maxX, maxX)]

\* Reader._clampPan
clampPan(r) ==
    IF r.scale <= ScaleUnit
    THEN [r EXCEPT !.translateX = 0, !.translateY = 0]
    ELSE LET maxX == ((r.scale - ScaleUnit) * ViewW * TransUnit) \div (2 * ScaleUnit)
             maxY == ((r.scale - ScaleUnit) * ViewH * TransUnit) \div (2 * ScaleUnit)
         IN [r EXCEPT !.translateX = clamp(@, -maxX, maxX),
                      !.translateY = clamp(@, -maxY, maxY)]

\* Reader._zoomTo (cx, cy in px)
zoomTo(r, m, targetScale, cx, cy) ==
    IF targetScale <= ScaleUnit
    THEN [r EXCEPT !.scale = ScaleUnit, !.translateX = 0, !.translateY = 0]
    ELSE LET dx == cx * TransUnit - (ViewW * TransUnit) \div 2
             dy == cy * TransUnit - (ViewH * TransUnit) \div 2
         IN clampPan([r EXCEPT
                !.scale = targetScale,
                !.translateX = (-dx * (targetScale - ScaleUnit)) \div targetScale,
                !.translateY = IF m = "vertical"
                               THEN (-dy * (targetScale - ScaleUnit)) \div targetScale
                               ELSE 0])

\* Reader._hideUI, Reader._showUI, Reader._toggleUI
hideUI(r) == [r EXCEPT !.uiVisible = FALSE]
showUI(r) == [r EXCEPT !.uiVisible = TRUE]
toggleUI(r) == IF r.uiVisible THEN hideUI(r) ELSE showUI(r)

\* Reader._scheduleUIHide: clearTimeout(_uiTimer), then a new timeout
scheduleUIHide(r) == [r EXCEPT !.uiTimer = UI_HIDE_MS]

\* a snap that turns the page on any displacement
snapAnyDrag(w) ==
    LET page == w.reader.currentPage
        diff == w.reader.translateX + (page - 1) * ViewW * TransUnit
    IN jumpToHPage(w, IF diff < 0 /\ page < totalPages THEN page + 1
                      ELSE IF diff > 0 /\ page > 1 THEN page - 1
                      ELSE page)

\* Reader._snapHorizontalPage (vw * 0.2 is a fifth of the width)
snapHorizontalPage(w) ==
    LET vw     == ViewW * TransUnit
        page   == w.reader.currentPage
        target == -(page - 1) * vw
        diff   == w.reader.translateX - target
        dest   == IF 5 * diff < -vw /\ page < totalPages THEN page + 1
                  ELSE IF 5 * diff > vw /\ page > 1 THEN page - 1
                  ELSE page
    IN jumpToHPage(w, dest)

\* the callback onTap
onTap(r) == scheduleUIHide(toggleUI(r))

\* a double tap that only ever zooms in
onDoubleTapZoomIn(r, m, x, y) == zoomTo(r, m, DOUBLE_TAP_SCALE, x, y)

\* the callback onDoubleTap
onDoubleTap(r, m, x, y) ==
    IF r.scale > ZOOMED THEN zoomTo(r, m, ScaleUnit, x, y)
    ELSE zoomTo(r, m, DOUBLE_TAP_SCALE, x, y)

\* the callback onPan (dx, dy in px); in vertical mode at scale <= 1.05 it
\* scrolls the viewport and leaves the transform alone
onPan(r, m, dx, dy) ==
    IF m = "vertical"
    THEN IF r.scale > ZOOMED
         THEN clampPan([r EXCEPT !.translateX = @ + dx * TransUnit,
                                 !.translateY = @ + dy * TransUnit])
         ELSE r
    ELSE [r EXCEPT !.translateX = @ + dx * TransUnit]

\* the callback onPanEnd
onPanEnd(w) ==
    IF mode = "horizontal" /\ w.reader.scale <= ZOOMED THEN snapHorizontalPage(w)
    ELSE w

\* the callback onPinch (newScale in hundredths, panDx, panDy in px)
onPinch(r, newScale, panDx, panDy) ==
    clampPan([r EXCEPT !.scale = clamp(newScale, minScale * ScaleUnit, maxScale * ScaleUnit),
                       !.translateX = panDx * TransUnit,
                       !.translateY = panDy * TransUnit])

\* a pinch end that keeps whatever scale the pinch left
onPinchEndKeep(r, m) == r

\* the callback onPinchEnd
onPinchEnd(r, m) == IF r.scale < ZOOMED THEN zoomTo(r, m, ScaleUnit, 0, 0) ELSE r

\* the inputs of the callbacks: tap points (a corner, the centre, the far
\* corner of the viewport), drag deltas (a fifth of the width, a quarter of
\* the height), pinch scales (below the minimum, just under and at 1.05,
\* above the maximum) and pinch midpoint displacements
TapPoints == {<<0, 0>>, <<ViewW \div 2, ViewH \div 2>>, <<ViewW, ViewH>>}
PanDeltas == {<<ViewW \div 5, 0>>, <<-(ViewW \div 5), 0>>,
              <<0, ViewH \div 4>>, <<0, -(ViewH \div 4)>>}
PinchScales == {50, 104, 105, 600}
PinchPans == {<<0, 0>>, <<3 * ViewW, -(3 * ViewH)>>}

\* a gesture callback has just run on the reader
\* the horizontal view shows the current page at scale 1
rested(r, m) ==
    /\ m = "horizontal"
    /\ r.scale = ScaleUnit
    /\ r.translateX = -(r.currentPage - 1) * ViewW * TransUnit

\* the page a zoom gesture began on, after the callback `name`: kept from the
\* first onPinch or onDoubleTap on a resting view up to the next onPanEnd
zoomFrom(r, m, name) ==
    IF name \in {"onPinch", "onDoubleTap"}
    THEN IF r.zoomFrom = 0 /\ rested(r, m) THEN r.currentPage ELSE r.zoomFrom
    ELSE IF name = "onPinchEnd" THEN r.zoomFrom
    ELSE 0

Gesture(name, w) ==
    /\ ~closed
    /\ Commit([w EXCEPT !.reader.cbk = name, !.reader.idle = 0,
                        !.reader.zoomFrom = zoomFrom(reader, mode, name)])
    /\ UNCHANGED <<mode, closed, toggles, failures, totalPages>>
    /\ UNCHANGED gestureVars

OnTap == Gesture("onTap", [World EXCEPT !.reader = onTap(@)])

OnDoubleTap ==
    \E p \in TapPoints :
        Gesture("onDoubleTap", [World EXCEPT !.reader = onDoubleTap(@, mode, p[1], p[2])])

\* a drag does not carry the page strip further than the document is wide
OnPan ==
    \E d \in PanDeltas :
        /\ Abs(reader.translateX + d[1] * TransUnit) <= totalPages * ViewW * TransUnit
        /\ Gesture("onPan", [World EXCEPT !.reader = onPan(@, mode, d[1], d[2])])

OnPanEnd == Gesture("onPanEnd", onPanEnd(World))

OnPinch ==
    \E newScale \in PinchScales, d \in PinchPans :
        Gesture("onPinch", [World EXCEPT !.reader = onPinch(@, newScale, d[1], d[2])])

OnPinchEnd == Gesture("onPinchEnd", [World EXCEPT !.reader = onPinchEnd(@, mode)])

\* the observer of the live VirtualScroll reports that page p is the current
\* one: Reader._onPageChanged
PageSeen ==
    /\ ~closed
    /\ \E p \in 1..totalPages :
         /\ p # reader.currentPage
         /\ Commit([World EXCEPT !.reader = [onPageChanged(@, p) EXCEPT !.zoomFrom = 0]])
    /\ UNCHANGED <<mode, closed, toggles, failures, totalPages>>
    /\ UNCHANGED gestureVars

\* the timeout of _scheduleUIHide runs: _hideUI
UITimeout ==
    /\ reader.uiTimer = 0
    /\ Commit([World EXCEPT !.reader = [hideUI(@) EXCEPT !.uiTimer = -1,
                                                         !.cbk = "uiTimeout"]])
    /\ UNCHANGED <<mode, closed, toggles, failures, totalPages>>
    /\ UNCHANGED gestureVars

\* UiTickMs pass without a gesture; a timeout that is due runs first
Idle ==
    /\ reader.uiTimer # 0
    /\ reader.uiTimer > 0 \/ reader.idle < UI_HIDE_MS
    /\ Commit([World EXCEPT
           !.reader.uiTimer = IF @ > UiTickMs THEN @ - UiTickMs ELSE IF @ > 0 THEN 0 ELSE @,
           !.reader.idle = IF @ + UiTickMs > UI_HIDE_MS THEN UI_HIDE_MS ELSE @ + UiTickMs])
    /\ UNCHANGED <<mode, closed, toggles, failures, totalPages>>
    /\ UNCHANGED gestureVars

(* ---------------------------------------------------------------------- *)
(* Reader.open                                                             *)
(* ---------------------------------------------------------------------- *)
\* DB.getFile resolves with a blob and DB.getProgress with the saved mode (no
\* saved page): a new PdfRenderer starts to load
GetFileDone ==
    /\ reader.stage = "getFile"
    /\ \E m \in {"vertical", "horizontal"} : mode' = m
    /\ Commit([cancelAll(World) EXCEPT !.reader.stage = "load"])
    /\ UNCHANGED <<closed, toggles, failures, totalPages>>
    /\ UNCHANGED gestureVars

\* DB.getFile resolves without a blob: open() throws 'File not found'
GetFileMissing ==
    /\ reader.stage = "getFile"
    /\ closed' = TRUE
    /\ Commit(openFailed(World))
    /\ UNCHANGED <<mode, toggles, failures, totalPages>>
    /\ UNCHANGED gestureVars

\* renderer.load resolves: _initLayout, _initGestures, _scheduleUIHide.  The
\* first document has OpenPages pages, a later one a page less.
LoadDone ==
    /\ reader.stage = "load"
    /\ totalPages' = IF reader.opens = 1 THEN OpenPages ELSE OpenPages - 1
    /\ closed' = FALSE
    /\ toggles' = IF reader.laidOut THEN toggles + 1 ELSE toggles
    /\ LET w == IF reader.laidOut THEN initLayout(World, liveVS) ELSE World IN
       Commit([w EXCEPT !.reader = scheduleUIHide([@ EXCEPT !.stage = "open",
                                                            !.laidOut = TRUE])])
    /\ UNCHANGED <<mode, failures>>
    /\ UNCHANGED gestureVars

\* renderer.load rejects
LoadFail ==
    /\ reader.stage = "load"
    /\ closed' = TRUE
    /\ Commit(openFailed(World))
    /\ UNCHANGED <<mode, toggles, failures, totalPages>>
    /\ UNCHANGED gestureVars

\* one of the class timeouts of open() / close() runs
AnimTimeout ==
    /\ \E a \in reader.anim : Commit([World EXCEPT !.reader.anim = @ \ {a}])
    /\ UNCHANGED <<mode, closed, toggles, failures, totalPages>>
    /\ UNCHANGED gestureVars

\* the close button, once the session is open
CloseOpened ==
    /\ reader.stage = "open"
    /\ Close

\* the close button (or the back button) while open() is suspended at the
\* await of DB.getFile or of renderer.load
CloseOpening ==
    /\ reader.stage \in {"getFile", "load"}
    /\ reader.closedAt = "none"
    /\ closed' = TRUE
    /\ Commit([closeOpening(World) EXCEPT !.reader.closedAt = reader.stage])
    /\ UNCHANGED <<mode, toggles, failures, totalPages>>
    /\ UNCHANGED gestureVars

\* open(comic) for another document, from the library, after the reader was
\* closed: up to the await of DB.getFile
OpenNext ==
    /\ closed
    /\ reader.stage \in {"open", "failed"}
    /\ reader.opens < MaxOpens
    /\ Commit([World EXCEPT !.reader = [showUI(@) EXCEPT !.stage = "getFile",
                                                         !.anim = @ \cup {"entering"},
                                                         !.toast = FALSE,
                                                         !.closedAt = "none",
                                                         !.opens = @ + 1]])
    /\ UNCHANGED <<mode, closed, toggles, failures, totalPages>>
    /\ UNCHANGED gestureVars

(* ---------------------------------------------------------------------- *)
(* GestureEngine                                                           *)
(* ---------------------------------------------------------------------- *)
NoTimeout == [due |-> FALSE, at |-> 0]
NoFrame == [due |-> FALSE, vx |-> 0, vy |-> 0]

\* GestureEngine.constructor.  The pinch baseline (_initPinch*) only feeds
\* the arguments of onPinch and is not kept.
NewEngine ==
    [pointers       |-> <<>>,
     lastPanX       |-> 0, lastPanY |-> 0,
     panVelX        |-> 0, panVelY  |-> 0,
     panTimestamp   |-> 0,
     momentumRafId  |-> FALSE,   \* a frame id is stored (truthy)
     frame          |-> NoFrame, \* the requested animation frame: step(), vx, vy
     lastTapTime    |-> 0, lastTapX |-> 0, lastTapY |-> 0,
     longPressTimer |-> FALSE,   \* a timeout id is stored (truthy)
     timeout        |-> NoTimeout, \* the timeout set by _onDown, until it runs
                                   \* or is cleared, and when it is to run
     longPressFired |-> FALSE,
     out            |-> <<>>]    \* callbacks invoked by the running handler

Event(id, pt, t) ==
    [pointerId |-> id, clientX |-> pt[1], clientY |-> pt[2], timeStamp |-> t]

\* a callback recorded ahead of those already invoked by the handler
EmitFirst(g, cb, args) ==
    [g EXCEPT !.out = <<[cb |-> cb, args |-> args]>> \o @]

\* this.cb.X && this.cb.X(...)
Emit(g, cb, args) == [g EXCEPT !.out = Append(@, [cb |-> cb, args |-> args])]

\* integer quotient rounded toward zero
Quot(a, b) == IF a >= 0 THEN a \div b ELSE -((-a) \div b)

\* Map.set / Map.delete on _pointers
SetPointer(ptrs, id, pt) ==
    [i \in (DOMAIN ptrs) \cup {id} |-> IF i = id THEN pt ELSE ptrs[i]]

\* Map.delete that leaves the entry in place
KeepPointer(ptrs, id) == ptrs

DeletePointer(ptrs, id) ==
    [i \in (DOMAIN ptrs) \ {id} |-> ptrs[i]]

\* _cancelMomentum that forgets the frame id without cancelAnimationFrame
cancelMomentumKeepFrame(g) ==
    IF g.momentumRafId
    THEN [g EXCEPT !.momentumRafId = FALSE]
    ELSE g

\* GestureEngine._cancelMomentum
cancelMomentum(g) ==
    IF g.momentumRafId
    THEN [g EXCEPT !.momentumRafId = FALSE, !.frame = NoFrame]
    ELSE g

\* GestureEngine._startMomentum
startMomentum(g) ==
    [g EXCEPT !.momentumRafId = TRUE,
              !.frame = [due |-> TRUE, vx |-> g.panVelX, vy |-> g.panVelY]]

\* step() with FRICTION = 1: the velocity is never reduced
momentumStepNoDecay(g) ==
    LET vx == g.frame.vx
        vy == g.frame.vy
    IN IF Abs(vx) < MIN_VEL /\ Abs(vy) < MIN_VEL
       THEN [g EXCEPT !.frame = NoFrame]
       ELSE Emit([g EXCEPT !.frame = [due |-> TRUE, vx |-> vx, vy |-> vy]],
                 "onPan", <<vx, vy, FALSE>>)

\* step() of _startMomentum, run by the animation frame
momentumStep(g) ==
    LET vx == Quot(g.frame.vx * 9, 10)
        vy == Quot(g.frame.vy * 9, 10)
    IN IF Abs(vx) < MIN_VEL /\ Abs(vy) < MIN_VEL
       THEN [g EXCEPT !.frame = NoFrame]
       ELSE Emit([g EXCEPT !.frame = [due |-> TRUE, vx |-> vx, vy |-> vy]],
                 "onPan", <<vx, vy, FALSE>>)

\* GestureEngine._clearLongPress
clearLongPress(g) ==
    IF g.longPressTimer
    THEN [g EXCEPT !.longPressTimer = FALSE, !.timeout = NoTimeout]
    ELSE g

\* a timeout callback that does not set _longPressFired
longPressTimeoutNoFlag(g) ==
    Emit([g EXCEPT !.timeout = NoTimeout], "onLongPress", <<>>)

\* the timeout callback armed by _onDown
longPressTimeout(g) ==
    Emit([g EXCEPT !.longPressFired = TRUE, !.timeout = NoTimeout],
         "onLongPress", <<>>)

\* GestureEngine._onDown
onDown(g, e) ==
    LET g1 == clearLongPress(cancelMomentum(g))
        pt == [x |-> e.clientX, y |-> e.clientY,
               startX |-> e.clientX, startY |-> e.clientY]
        g2 == [g1 EXCEPT !.pointers = SetPointer(@, e.pointerId, pt)]
        count == Cardinality(DOMAIN g2.pointers)
    IN IF count = 1
       THEN [g2 EXCEPT !.lastPanX = e.clientX, !.lastPanY = e.clientY,
                       !.panVelX = 0, !.panVelY = 0,
                       !.panTimestamp = e.timeStamp,
                       !.longPressFired = FALSE,
                       !.longPressTimer = TRUE,
                       !.timeout = [due |-> TRUE,
                                    at |-> e.timeStamp + LONG_PRESS_MS]]
       ELSE IF count = 2 THEN clearLongPress(g2)
       ELSE g2

\* a pinch branch taken with two or more contacts
IsPinchOrMore(count) == count >= 2

\* GestureEngine._onMove: else if (count === 2)
IsPinch(count) == count = 2

\* GestureEngine._onMove
onMove(g, e) ==
    IF e.pointerId \notin DOMAIN g.pointers THEN g
    ELSE
    LET g1 == [g EXCEPT !.pointers[e.pointerId].x = e.clientX,
                        !.pointers[e.pointerId].y = e.clientY]
        pt == g1.pointers[e.pointerId]
        count == Cardinality(DOMAIN g1.pointers)
    IN IF count = 1
       THEN LET dx == e.clientX - g1.lastPanX
                dy == e.clientY - g1.lastPanY
                dt == IF e.timeStamp - g1.panTimestamp = 0 THEN 16
                      ELSE e.timeStamp - g1.panTimestamp
                g2 == IF g1.longPressTimer
                         /\ (Abs(e.clientX - pt.startX) > LongPressSlop
                             \/ Abs(e.clientY - pt.startY) > LongPressSlop)
                      THEN clearLongPress(g1) ELSE g1
                \* alpha = 0.6:  v = alpha * (d / dt * 16) + (1 - alpha) * v
                velX == Quot(6 * Quot(dx * 16 * VelUnit, dt) + 4 * g2.panVelX, 10)
                velY == Quot(6 * Quot(dy * 16 * VelUnit, dt) + 4 * g2.panVelY, 10)
            IN Emit([g2 EXCEPT !.panVelX = velX, !.panVelY = velY,
                               !.lastPanX = e.clientX, !.lastPanY = e.clientY,
                               !.panTimestamp = e.timeStamp],
                    "onPan", <<dx, dy, TRUE>>)
       ELSE IF IsPinch(count) THEN Emit(g1, "onPinch", <<>>)
       ELSE g1

\* moved = dx > 10 && dy > 10
MovedBothAxes(dx, dy) == dx > TapSlop /\ dy > TapSlop

\* GestureEngine._onUp: moved = dx > 10 || dy > 10
Moved(dx, dy) == dx > TapSlop \/ dy > TapSlop

\* GestureEngine._onUp: the double-tap test
IsDoubleTap(g, e) ==
    /\ e.timeStamp - g.lastTapTime < TAP_GAP
    /\ Abs(e.clientX - g.lastTapX) < TAP_DIST
    /\ Abs(e.clientY - g.lastTapY) < TAP_DIST

\* GestureEngine._onUp
onUp(g, e) ==
    IF e.pointerId \notin DOMAIN g.pointers THEN g
    ELSE
    LET g1 == clearLongPress(g)
        pt == g1.pointers[e.pointerId]
        g2 == [g1 EXCEPT !.pointers = DeletePointer(@, e.pointerId)]
        count == Cardinality(DOMAIN g2.pointers)
    IN IF count = 0
       THEN LET dx == Abs(e.clientX - pt.startX)
                dy == Abs(e.clientY - pt.startY)
                g3 == IF g2.longPressFired THEN g2
                      ELSE IF ~Moved(dx, dy)
                      THEN IF IsDoubleTap(g2, e)
                           THEN Emit([g2 EXCEPT !.lastTapTime = 0],
                                     "onDoubleTap", <<e.clientX, e.clientY>>)
                           ELSE Emit([g2 EXCEPT !.lastTapTime = e.timeStamp,
                                                !.lastTapX = e.clientX,
                                                !.lastTapY = e.clientY],
                                     "onTap", <<e.clientX, e.clientY>>)
                      ELSE IF g2.panVelX * g2.panVelX + g2.panVelY * g2.panVelY
                                 > MinSpeed * MinSpeed
                           THEN startMomentum(g2)
                           ELSE g2
            IN Emit(g3, "onPanEnd", <<>>)
       ELSE IF count = 1
       THEN LET remainingPt == g2.pointers[CHOOSE i \in DOMAIN g2.pointers : TRUE]
            IN Emit([g2 EXCEPT !.lastPanX = remainingPt.x,
                               !.lastPanY = remainingPt.y,
                               !.panVelX = 0, !.panVelY = 0],
                    "onPinchEnd", <<>>)
       ELSE g2

\* GestureEngine._onCancel
onCancel(g, e) ==
    Emit(cancelMomentum(clearLongPress(
            [g EXCEPT !.pointers = DeletePointer(@, e.pointerId)])),
         "onPanEnd", <<>>)

(* ---------------------------------------------------------------------- *)
(* Actions of the gesture engine                                           *)
(* ---------------------------------------------------------------------- *)
NoEvent == [type |-> "none", id |-> 0, x |-> 0, y |-> 0, dx |-> 0, dy |-> 0]
NoTap == [set |-> FALSE, t |-> 0, x |-> 0, y |-> 0]

Names(out) == {out[i].cb : i \in DOMAIN out}
Count(out, cb) == Cardinality({i \in DOMAIN out : out[i].cb = cb})

InitGesture ==
    /\ engine = NewEngine
    /\ now = 0
    /\ envDown = {}
    /\ emitted = <<>>
    /\ lastEvent = NoEvent
    /\ tapHist = NoTap
    /\ afterDouble = FALSE
    /\ moves = 0
    /\ downs = 0
    /\ hist = [pressed |-> FALSE, stopped |-> FALSE, destroyed |-> FALSE]

\* With no pointer active the pan reference, velocity and timestamp are not
\* read before _onDown (count === 1) overwrites them: they are kept as the
\* constructor set them, so that states differing only there are one state.
AtRest(g) ==
    IF DOMAIN g.pointers = {}
    THEN [g EXCEPT !.lastPanX = 0, !.lastPanY = 0, !.panVelX = 0, !.panVelY = 0,
                   !.panTimestamp = 0]
    ELSE g

\* a handler has run on g: keep the engine, publish what it emitted
Handled(g, ev) ==
    /\ engine' = [AtRest(g) EXCEPT !.out = <<>>]
    /\ emitted' = g.out
    /\ lastEvent' = ev
    /\ tapHist' = IF "onDoubleTap" \in Names(g.out) THEN NoTap
                  ELSE IF "onTap" \in Names(g.out)
                       THEN [set |-> TRUE, t |-> now, x |-> ev.x, y |-> ev.y]
                       ELSE tapHist
    /\ afterDouble' = IF "onDoubleTap" \in Names(g.out) THEN TRUE
                      ELSE IF "onTap" \in Names(g.out) THEN FALSE
                      ELSE afterDouble
    /\ hist' = [hist EXCEPT
                  !.pressed = IF "onLongPress" \in Names(g.out) THEN TRUE
                              ELSE IF ev.type = "down" /\ envDown = {} THEN FALSE
                              ELSE @,
                  !.stopped = ev.type \in {"down", "cancel"} /\ engine.frame.due]

\* what lastEvent keeps of an event: nothing but its type when the handler
\* returned at its guard (unknown pointer id)
Seen(type, id, pt, known) ==
    IF known
    THEN [type |-> type, id |-> id, x |-> pt[1], y |-> pt[2], dx |-> 0, dy |-> 0]
    ELSE [NoEvent EXCEPT !.type = "ignored"]

\* The engine only compares pointer ids for equality: a new contact takes
\* the lowest id that is not down.
Down(ids, limit) ==
    /\ downs < limit
    /\ \E id \in ids \ envDown, pt \in Points :
         /\ \A other \in ids \ envDown : id <= other
         /\ Handled(onDown(engine, Event(id, pt, now)), Seen("down", id, pt, TRUE))
         /\ envDown' = envDown \cup {id}
    /\ downs' = downs + 1
    /\ UNCHANGED <<now, moves, scrollVars>>

PointerDown == Down(PointerIds, MaxDowns)

Move(ids) ==
    /\ \E id \in ids, pt \in Points :
         LET known == id \in DOMAIN engine.pointers IN
         /\ known => moves < MaxMoves
         /\ Handled(onMove(engine, Event(id, pt, now)), Seen("move", id, pt, known))
         /\ moves' = IF known THEN moves + 1 ELSE moves
    /\ UNCHANGED <<now, envDown, downs, scrollVars>>

PointerMove == Move(PointerIds)

Up(ids) ==
    /\ \E id \in ids, pt \in Points :
         /\ Handled(onUp(engine, Event(id, pt, now)),
                    IF id \in DOMAIN engine.pointers
                    THEN [Seen("up", id, pt, TRUE) EXCEPT
                            !.dx = Abs(pt[1] - engine.pointers[id].startX),
                            !.dy = Abs(pt[2] - engine.pointers[id].startY)]
                    ELSE Seen("up", id, pt, FALSE))
         /\ envDown' = envDown \ {id}
         /\ moves' = IF DOMAIN engine'.pointers = {} THEN 0 ELSE moves
    /\ UNCHANGED <<now, downs, scrollVars>>

PointerUp == Up(PointerIds)

Cancel(ids) ==
    /\ \E id \in ids :
         /\ Handled(onCancel(engine, Event(id, <<0, 0>>, now)),
                    [NoEvent EXCEPT !.type = "cancel", !.id = id])
         /\ envDown' = envDown \ {id}
         /\ moves' = IF DOMAIN engine'.pointers = {} THEN 0 ELSE moves
    /\ UNCHANGED <<now, downs, scrollVars>>

PointerCancel == Cancel(PointerIds)

\* the same events from a device that reports up to three contacts
TouchDown == Down(TouchIds, MaxTouches)

TouchMove == Move(TouchIds)

TouchUp == Up(TouchIds)

\* the long-press timeout runs once its delay has passed
LongPressTimeout ==
    /\ engine.timeout.due
    /\ now >= engine.timeout.at
    /\ Handled(longPressTimeout(engine), [NoEvent EXCEPT !.type = "timeout"])
    /\ UNCHANGED <<now, envDown, moves, downs, scrollVars>>

\* the requested animation frame runs step()
MomentumFrame ==
    /\ engine.frame.due
    /\ Handled(momentumStep(engine), [NoEvent EXCEPT !.type = "frame"])
    /\ UNCHANGED <<now, envDown, moves, downs, scrollVars>>

\* time passes; a timeout that is due runs before time passes further
Tick ==
    /\ now + TickMs <= MaxTicks * TickMs
    /\ ~(engine.timeout.due /\ now >= engine.timeout.at)
    /\ now' = now + TickMs
    /\ UNCHANGED <<engine, envDown, emitted, lastEvent, tapHist, afterDouble,
                   moves, downs, hist, scrollVars>>

\* the contacts are held for the long-press delay
Hold ==
    /\ DOMAIN engine.pointers # {}
    /\ now + LONG_PRESS_MS <= MaxTicks * TickMs
    /\ ~(engine.timeout.due /\ now >= engine.timeout.at)
    /\ now' = now + LONG_PRESS_MS
    /\ UNCHANGED <<engine, envDown, emitted, lastEvent, tapHist, afterDouble,
                   moves, downs, hist, scrollVars>>

\* GestureEngine.destroy
destroyEngine(g) == clearLongPress(cancelMomentum(g))

\* Reader._initGestures / Reader.close call destroy() on the engine; its
\* listeners stay bound to the viewport
Destroy ==
    /\ ~hist.destroyed
    /\ engine' = destroyEngine(engine)
    /\ emitted' = <<>>
    /\ lastEvent' = [NoEvent EXCEPT !.type = "destroy"]
    /\ hist' = [hist EXCEPT !.destroyed = TRUE, !.stopped = FALSE]
    /\ UNCHANGED <<now, envDown, tapHist, afterDouble, moves, downs, scrollVars>>

(* ---------------------------------------------------------------------- *)
(* The Reader under its GestureEngine, one contact                         *)
(* ---------------------------------------------------------------------- *)
\* the callback onPan with the deltas in 1/TransUnit px
panBy(r, m, tx, ty) ==
    IF m = "vertical"
    THEN IF r.scale > ZOOMED
         THEN clampPan([r EXCEPT !.translateX = @ + tx, !.translateY = @ + ty])
         ELSE r
    ELSE [r EXCEPT !.translateX = @ + tx]

\* the Reader's callback for one emitted call c.  A drag passes whole px, a
\* momentum frame passes its velocity (1/VelUnit px); with one contact the
\* engine emits neither onPinch nor onPinchEnd, and onLongPress is empty.
callback(w, c) ==
    LET w1 == CASE c.cb = "onPan" ->
                     [w EXCEPT !.reader =
                         IF c.args[3]
                         THEN panBy(@, mode, c.args[1] * TransUnit, c.args[2] * TransUnit)
                         ELSE panBy(@, mode, Quot(c.args[1] * TransUnit, VelUnit),
                                             Quot(c.args[2] * TransUnit, VelUnit))]
                 [] c.cb = "onPanEnd" -> onPanEnd(w)
                 [] c.cb = "onTap" -> [w EXCEPT !.reader = onTap(@)]
                 [] c.cb = "onDoubleTap" ->
                     [w EXCEPT !.reader = onDoubleTap(@, mode, c.args[1], c.args[2])]
                 [] OTHER -> w
    IN [w1 EXCEPT !.reader.cbk = c.cb,
                  !.reader.zoomFrom = zoomFrom(w.reader, mode, c.cb)]

\* the callbacks a handler invoked, in order
RECURSIVE deliver(_, _)
deliver(w, out) ==
    IF out = <<>> THEN w ELSE deliver(callback(w, Head(out)), Tail(out))

\* the Reader after the handler of this step
Delivered ==
    /\ Commit(deliver(World, emitted'))
    /\ UNCHANGED <<mode, closed, toggles, failures, totalPages>>

FlingDown ==
    /\ downs < MaxDowns
    /\ envDown = {}
    /\ \E pt \in Points :
         Handled(onDown(engine, Event(1, pt, now)), Seen("down", 1, pt, TRUE))
    /\ envDown' = {1}
    /\ downs' = downs + 1
    /\ UNCHANGED <<now, moves>>
    /\ Delivered

FlingMove ==
    /\ envDown = {1}
    /\ moves < MaxMoves
    /\ \E pt \in Points :
         Handled(onMove(engine, Event(1, pt, now)), Seen("move", 1, pt, TRUE))
    /\ moves' = moves + 1
    /\ UNCHANGED <<now, envDown, downs>>
    /\ Delivered

FlingUp ==
    /\ envDown = {1}
    /\ \E pt \in Points :
         Handled(onUp(engine, Event(1, pt, now)),
                 [Seen("up", 1, pt, TRUE) EXCEPT
                    !.dx = Abs(pt[1] - engine.pointers[1].startX),
                    !.dy = Abs(pt[2] - engine.pointers[1].startY)])
    /\ envDown' = {}
    /\ moves' = 0
    /\ UNCHANGED <<now, downs>>
    /\ Delivered

FlingCancel ==
    /\ envDown = {1}
    /\ Handled(onCancel(engine, Event(1, <<0, 0>>, now)),
               [NoEvent EXCEPT !.type = "cancel", !.id = 1])
    /\ envDown' = {}
    /\ moves' = 0
    /\ UNCHANGED <<now, downs>>
    /\ Delivered

\* the requested animation frame runs step(), whose onPan reaches the Reader
FlingFrame ==
    /\ engine.frame.due
    /\ Handled(momentumStep(engine), [NoEvent EXCEPT !.type = "frame"])
    /\ UNCHANGED <<now, envDown, moves, downs>>
    /\ Delivered

(* ---------------------------------------------------------------------- *)
(* Specifications                                                          *)
(* ---------------------------------------------------------------------- *)
Init == InitScroll /\ InitGesture /\ totalPages = NumPages

\* a short document
InitSession == InitScroll /\ InitGesture /\ totalPages = SessionPages

InitReader == InitScroll /\ InitGesture /\ totalPages = ReaderPages

\* one VirtualScroll and the slots that intersect the observer's root
NextSlots ==
    \/ ObserveVisible
    \/ GetPageDone
    \/ RenderDone

SpecSlots == Init /\ [][NextSlots]_vars

\* one VirtualScroll over a short document, with the canvases of its slots
NextCanvas ==
    \/ ObserveSlot
    \/ GetPageDone
    \/ RenderDoneSlot
    \/ RemoveTimeout

SpecCanvas == InitReader /\ [][NextCanvas]_vars

\* one VirtualScroll over one PdfRenderer
NextScroll ==
    \/ OnIntersect
    \/ GetPageDone
    \/ GetPageFail
    \/ RenderDone
    \/ RenderFail

SpecScroll == Init /\ [][NextScroll]_vars

\* the same VirtualScroll when every render succeeds
NextBuffer ==
    \/ OnIntersect
    \/ GetPageDone
    \/ RenderDone

SpecBuffer == Init /\ [][NextBuffer]_vars

\* a reading session: mode toggles and close, renders that succeed
NextSession ==
    \/ OnIntersectSession
    \/ GetPageDone
    \/ RenderDone
    \/ ToggleMode
    \/ Close

SpecSession == InitSession /\ [][NextSession]_vars

\* the Reader's page bookkeeping: the observer reports for the positions the
\* program scrolls to, the progress track, mode toggles, timers and close;
\* the renders the observer schedules stay in flight
NextReader ==
    \/ Observe
    \/ Scrub
    \/ ToggleModeBack
    \/ RestoreTimeout
    \/ SaveTimeout
    \/ Elapse
    \/ Close

SpecReader == InitReader /\ [][NextReader]_vars

\* a session opened in either mode, as open() leaves it: the chrome shown and
\* its timer armed
InitView ==
    /\ \E m \in {"vertical", "horizontal"} : InitLayout(m, scheduleUIHide(NewReader))
    /\ InitGesture
    /\ totalPages = ViewPages

\* the Reader's zoom and pan under the callbacks of its GestureEngine and the
\* page reports of the observer
NextView ==
    \/ OnDoubleTap
    \/ OnPan
    \/ OnPanEnd
    \/ OnPinch
    \/ OnPinchEnd
    \/ PageSeen

SpecView == InitView /\ [][NextView]_vars

\* the Reader's chrome: gesture callbacks, the chrome timer and time
NextChrome ==
    \/ OnTap
    \/ OnDoubleTap
    \/ OnPan
    \/ OnPinch
    \/ UITimeout
    \/ Idle

SpecChrome == InitView /\ [][NextChrome]_vars

\* open(comic) on a new Reader, up to its first await: the chrome shown, the
\* 'entering' timeout set, nothing laid out
InitOpen ==
    /\ InitLayout("vertical", [NewReader EXCEPT !.stage = "getFile",
                                                !.anim = {"entering"},
                                                !.laidOut = FALSE])
    /\ InitGesture
    /\ totalPages = 0

\* opening a document, which may fail, and the session that follows
NextOpen ==
    \/ GetFileDone
    \/ GetFileMissing
    \/ LoadDone
    \/ LoadFail
    \/ AnimTimeout
    \/ OnIntersectSession
    \/ GetPageDone
    \/ RenderDone
    \/ CloseOpened

SpecOpen == InitOpen /\ [][NextOpen]_vars

\* the same with close() during open() and a second document
NextReopen ==
    \/ GetFileDone
    \/ GetFileMissing
    \/ LoadDone
    \/ LoadFail
    \/ AnimTimeout
    \/ OnIntersectSession
    \/ GetPageDone
    \/ RenderDone
    \/ CloseOpened
    \/ CloseOpening
    \/ OpenNext

SpecReopen == InitOpen /\ [][NextReopen]_vars

\* a horizontal Reader whose GestureEngine sees one contact at a time
InitFling ==
    /\ InitLayout("horizontal", NewReader)
    /\ InitGesture
    /\ totalPages = ViewPages

NextFling ==
    \/ FlingDown
    \/ FlingMove
    \/ FlingUp
    \/ FlingCancel
    \/ FlingFrame
    \/ LongPressTimeout
    \/ Tick

SpecFling == InitFling /\ [][NextFling]_vars

\* one GestureEngine fed by the input source, the timer and animation frames
NextGesture ==
    \/ PointerDown
    \/ PointerMove
    \/ PointerUp
    \/ PointerCancel
    \/ LongPressTimeout
    \/ MomentumFrame
    \/ Tick

SpecGesture == Init /\ [][NextGesture]_vars

\* one GestureEngine under up to three contacts
NextTouch ==
    \/ TouchDown
    \/ TouchMove
    \/ TouchUp
    \/ LongPressTimeout
    \/ Hold

SpecTouch == Init /\ [][NextTouch]_vars

\* the engine of a reader that re-initialises its gestures or closes
NextRebind ==
    \/ PointerDown
    \/ PointerMove
    \/ PointerUp
    \/ PointerCancel
    \/ LongPressTimeout
    \/ MomentumFrame
    \/ Tick
    \/ Destroy

SpecRebind == Init /\ [][NextRebind]_vars

(* ---------------------------------------------------------------------- *)
(* Claims about the page virtualisation                                    *)
(* ---------------------------------------------------------------------- *)
\* C1: the rendered set of a VirtualScroll never holds more than the budget
\* of 5 pages.
C1_RenderedWithinBudget ==
    \A v \in VSIds : Cardinality(vs[v].rendered) <= maxBuffered

\* C2: no eviction (by the observer's "not intersecting" entry or by the
\* memory guard of a scheduled render) removes from the rendered set a page
\* within 2 of the current page at the time of the eviction.
C2_EvictionSparesNearPages ==
    [][\A v \in VSIds :
         \A p \in vs[v].rendered \ vs'[v].rendered :
            vs'[v].destroyed = vs[v].destroyed
               => Abs(p - currentPage) > KeepRadius]_vars

\* the memory guard has just evicted a page while five or more were rendered
C2_GuardEvicted ==
    /\ lastEvict = "guard"
    /\ Cardinality(vs[liveVS].rendered) >= maxBuffered - 1

\* C3: a render scheduled for a page that already has a render in flight
\* cancels that earlier render and leaves exactly one render of the page.
C3_RescheduleCancelsPrior ==
    [][\A p \in Pages :
         LET old == {c \in calls : c.page = p}
             new == {c \in calls' : c.page = p} \ old
         IN (old # {} /\ new # {})
               => /\ old \cap calls' = {}
                  /\ Cardinality({c \in calls' : c.page = p}) = 1]_vars

\* C4: for every page at most one render task is outstanding on the
\* PdfRenderer.
C4_OneTaskPerPage ==
    \A p \in Pages :
       Cardinality({c \in calls : c.page = p /\ c.stage = "render"}) <= 1

\* C5: no render completion callback runs against a destroyed VirtualScroll:
\* its rendered set stays empty, as destroy() left it.
C5_NoCallbackAfterDestroy ==
    \A v \in VSIds : vs[v].destroyed => vs[v].rendered = {}

\* C6: a page whose render failed or was cancelled is left in placeholder
\* state: a page is pending only while a render of it is in flight, so that a
\* later visibility entry schedules it again.
C6_PendingHasRenderInFlight ==
    \A p \in vs[liveVS].pending :
       \E c \in calls : c.page = p /\ c.vs = liveVS

(* ---------------------------------------------------------------------- *)
(* Claims about the gesture engine                                         *)
(* ---------------------------------------------------------------------- *)
\* C7: when every pointer that went down has been lifted or cancelled, the
\* engine's active-contact map is empty; more generally the map holds
\* exactly the ids that are down.
C7_NoLeakedContacts ==
    /\ DOMAIN engine.pointers = envDown
    /\ envDown = {} => DOMAIN engine.pointers = {}

\* C7 witness: after two or more contacts, the last one has just been
\* lifted or cancelled.
C7_AllLifted ==
    /\ downs >= 2
    /\ envDown = {}
    /\ lastEvent.type \in {"up", "cancel"}

\* C8: when the last contact lifts with a tap-sized displacement and long
\* press has not fired, onDoubleTap is emitted iff an earlier onTap, still
\* the tap history, lies within 300 ms and within 40 px on both axes of this
\* release; otherwise exactly one onTap is emitted and this tap becomes the
\* tap history.  In particular the first tap of an engine is an onTap.
C8_DoubleTapIffPaired ==
    [][LET e == lastEvent'
           tapRelease == /\ e.type = "up"
                         /\ envDown # {} /\ envDown' = {}
                         /\ ~engine.longPressFired
                         /\ e.dx * e.dx + e.dy * e.dy <= TapSlop * TapSlop
           paired == /\ tapHist.set
                     /\ now - tapHist.t < TAP_GAP
                     /\ Abs(e.x - tapHist.x) < TAP_DIST
                     /\ Abs(e.y - tapHist.y) < TAP_DIST
       IN tapRelease =>
            IF paired
            THEN /\ Count(emitted', "onDoubleTap") = 1
                 /\ Count(emitted', "onTap") = 0
            ELSE /\ Count(emitted', "onTap") = 1
                 /\ Count(emitted', "onDoubleTap") = 0
                 /\ engine'.lastTapTime = now
                 /\ engine'.lastTapX = e.x
                 /\ engine'.lastTapY = e.y]_vars

\* C9: the tap release that follows an onDoubleTap emits onTap and not
\* onDoubleTap, however soon and however close it follows.
C9_TapAfterDoubleTap ==
    [][(/\ afterDouble
        /\ lastEvent'.type = "up"
        /\ envDown # {} /\ envDown' = {}
        /\ ~engine.longPressFired
        /\ lastEvent'.dx <= TapSlop /\ lastEvent'.dy <= TapSlop)
       => /\ "onTap" \in Names(emitted')
          /\ "onDoubleTap" \notin Names(emitted')]_vars

\* C10 as stated: on release of the last contact with long press not fired,
\* the release is a tap (exactly one of onTap / onDoubleTap, no momentum)
\* when the total displacement from the start point is at most 10 px, and a
\* drag release (neither callback) when the total displacement exceeds 10 px.
C10_TapByTotalDisplacement ==
    [][LET e == lastEvent'
           taps == Count(emitted', "onTap") + Count(emitted', "onDoubleTap")
       IN (/\ e.type = "up"
           /\ envDown # {} /\ envDown' = {}
           /\ ~engine.longPressFired)
          => IF e.dx * e.dx + e.dy * e.dy <= TapSlop * TapSlop
             THEN taps = 1 /\ ~engine'.frame.due
             ELSE taps = 0]_vars

\* C10 amended: the release is a tap (exactly one of onTap / onDoubleTap, no
\* momentum) when the displacement from the start point is at most 10 px on
\* each axis, and a drag release (neither callback) when it exceeds 10 px on
\* either axis.
C10_TapByAxisDisplacement ==
    [][LET e == lastEvent'
           taps == Count(emitted', "onTap") + Count(emitted', "onDoubleTap")
       IN (/\ e.type = "up"
           /\ envDown # {} /\ envDown' = {}
           /\ ~engine.longPressFired)
          => IF e.dx <= TapSlop /\ e.dy <= TapSlop
             THEN taps = 1 /\ ~engine'.frame.due
             ELSE taps = 0]_vars

\* C10 witness: a contact released 10 px away from its start on both axes
\* (more than 10 px in total) has just been classified as a tap.
C10_DiagonalTap ==
    /\ lastEvent.type = "up"
    /\ lastEvent.dx = TapSlop /\ lastEvent.dy = TapSlop
    /\ envDown = {}
    /\ "onTap" \in Names(emitted)

\* C11: with a single contact down, onLongPress fires exactly once, 500 ms
\* after the down, while the contact stays down, no second contact comes down
\* and it has not moved more than 8 px from its start; a move of more than
\* 8 px before that cancels it for good (until the next first contact).
\* Step by step: the first contact arms the timeout at now + 500; an armed
\* timeout is only given up by running (one onLongPress, at or after its
\* time), by a change of the contacts, or by a move beyond 8 px, and such a
\* move always gives it up; onLongPress is only emitted by the timeout; and
\* the timeout is only armed by a first contact.
C11_LongPressOnce ==
    [][LET t == engine.timeout
           t2 == engine'.timeout
           ptrs == DOMAIN engine.pointers
           ptrs2 == DOMAIN engine'.pointers
           e == lastEvent'
           farMove == /\ now' = now
                      /\ e.type = "move"
                      /\ ptrs = {e.id}
                      /\ \/ Abs(e.x - engine.pointers[e.id].startX) > LongPressSlop
                         \/ Abs(e.y - engine.pointers[e.id].startY) > LongPressSlop
       IN /\ (ptrs = {} /\ ptrs2 # {})
               => t2 = [due |-> TRUE, at |-> now + LONG_PRESS_MS]
          /\ (t.due /\ ~t2.due)
               => \/ /\ e.type = "timeout"
                     /\ now >= t.at
                     /\ Count(emitted', "onLongPress") = 1
                     /\ engine'.longPressFired
                  \/ ptrs2 # ptrs
                  \/ farMove
          /\ (t.due /\ farMove) => ~t2.due
          /\ (now' = now /\ "onLongPress" \in Names(emitted'))
               => (t.due /\ ~t2.due /\ e.type = "timeout")
          /\ (~t.due /\ t2.due) => ptrs = {}]_vars

\* C13: every momentum frame multiplies the velocity by 0.90; it emits
\* onPan(vx, vy, false) with the decayed velocity and asks for another frame
\* when a component is at least 0.3 in magnitude, and stops without emitting
\* at the first frame where both are below 0.3.  The velocity's magnitude
\* strictly decreases from frame to frame, so the sequence ends after a
\* bounded number of frames.
C13_MomentumDecays ==
    [][(now' = now /\ lastEvent'.type = "frame" /\ engine.frame.due)
       => LET f == engine.frame
              f2 == engine'.frame
              stops == /\ 9 * Abs(f.vx) < 10 * MIN_VEL
                       /\ 9 * Abs(f.vy) < 10 * MIN_VEL
          IN IF stops
             THEN emitted' = <<>> /\ ~f2.due
             ELSE /\ f2.due
                  /\ emitted' = <<[cb |-> "onPan", args |-> <<f2.vx, f2.vy, FALSE>>]>>
                  \* 0.9 * v, rounded toward zero, with the sign of v
                  /\ 10 * Abs(f2.vx) <= 9 * Abs(f.vx)
                  /\ 9 * Abs(f.vx) < 10 * Abs(f2.vx) + 10
                  /\ 10 * Abs(f2.vy) <= 9 * Abs(f.vy)
                  /\ 9 * Abs(f.vy) < 10 * Abs(f2.vy) + 10
                  /\ f2.vx * f.vx >= 0 /\ f2.vy * f.vy >= 0
                  /\ Abs(f2.vx) + Abs(f2.vy) < Abs(f.vx) + Abs(f.vy)]_vars

\* C13 witness: a momentum sequence has just stopped: the frame emitted
\* nothing and asked for no further frame.
C13_MomentumStopped ==
    /\ lastEvent.type = "frame"
    /\ emitted = <<>>
    /\ ~engine.frame.due
    /\ engine.momentumRafId
    /\ DOMAIN engine.pointers = {}

\* C15: a pointer move, up or cancel whose id is not an active contact is
\* ignored: it changes nothing in the engine and emits no callback.
C15_UnknownIdIgnored ==
    [][(/\ now' = now
        /\ \/ lastEvent'.type = "ignored"
           \/ lastEvent'.type = "cancel" /\ lastEvent'.id \notin DOMAIN engine.pointers)
       => /\ engine' = engine
          /\ emitted' = <<>>]_vars

\* C20: every pointer-up that takes the contact count from 1 to 0 emits
\* exactly one onPanEnd, as the last callback of that release (after any
\* onTap or onDoubleTap), whether or not long press fired.
C20_PanEndClosesRelease ==
    [][(/\ lastEvent'.type = "up"
        /\ envDown # {} /\ envDown' = {})
       => /\ Count(emitted', "onPanEnd") = 1
          /\ emitted'[Len(emitted')].cb = "onPanEnd"]_vars

\* C20 witness: a tap release emitted onTap and then onPanEnd.
C20_TapThenPanEnd ==
    /\ lastEvent.type = "up"
    /\ envDown = {}
    /\ Len(emitted) = 2
    /\ emitted[1].cb = "onTap"
    /\ emitted[2].cb = "onPanEnd"

(* ---------------------------------------------------------------------- *)
(* Further claims about the page virtualisation                            *)
(* ---------------------------------------------------------------------- *)
\* C17: when the observer reports that the slot of page p left the viewport
\* while p is more than 2 pages from the current page, any render of p in
\* flight is cancelled and p is left in placeholder state: after the entry
\* is handled p is neither rendered nor pending and no render of p by this
\* VirtualScroll is in flight (so p cannot become rendered without a new
\* render being scheduled).  Stated for the entry handled in any reachable
\* state.
C17_EvictionCancelsPending ==
    ~closed =>
      \A p \in Pages :
        Abs(p - currentPage) > KeepRadius =>
          LET w == onIntersectEntry(World, liveVS, p, FALSE, 0, -1)
          IN /\ p \notin w.vs[liveVS].rendered
             /\ p \notin w.vs[liveVS].pending
             /\ \A c \in w.calls : ~(c.page = p /\ c.vs = liveVS)

\* C18: a render of page p that is in flight when cancellation of p is
\* requested never invokes its completion callback.  A renderPage call for p
\* that is still in flight beside a call for p made by a later VirtualScroll
\* has had cancelPage(p) requested (at the start of the later call): it does
\* not complete with onDone, that is, p is not added to the rendered set of
\* its VirtualScroll.
C18_CancelledNeverCompletes ==
    [][\A c \in calls :
         (\E c2 \in calls : c2.page = c.page /\ c2.vs > c.vs)
           => ~(/\ c.stage = "render"
                /\ c \notin calls'
                /\ c.page \in vs'[c.vs].rendered
                /\ c.page \notin vs[c.vs].rendered)]_vars

\* C19 as stated: when a render is scheduled for page p while at least 5
\* pages are rendered, the rendered page at the maximum distance from p is
\* evicted if that distance exceeds 3; at most one page is evicted and never
\* one at distance 3 or less from p.
C19_GuardEvictsFarthest ==
    [][\A c \in calls' \ calls :
         (/\ c.stage = "getPage"
          /\ c.vs = liveVS
          /\ toggles' = toggles
          /\ Cardinality(vs[liveVS].rendered) >= maxBuffered)
         => LET R == vs[liveVS].rendered
                E == R \ vs'[liveVS].rendered
                far == Farthest(World, liveVS, c.page)
            IN /\ Cardinality(E) <= 1
               /\ \A q \in E : Abs(q - c.page) > FarDist /\ q \in far
               /\ (\E q \in R : Abs(q - c.page) > FarDist) => Cardinality(E) = 1]_vars

\* C19 amended: ... the rendered page at the maximum distance from p is
\* evicted if that distance exceeds 3 and that page is more than 2 pages from
\* the current page; at most one page is evicted and never one at distance 3
\* or less from p.
C19_GuardEvictsUnprotectedFarthest ==
    [][\A c \in calls' \ calls :
         (/\ c.stage = "getPage"
          /\ c.vs = liveVS
          /\ toggles' = toggles
          /\ Cardinality(vs[liveVS].rendered) >= maxBuffered)
         => LET R == vs[liveVS].rendered
                E == R \ vs'[liveVS].rendered
                far == Farthest(World, liveVS, c.page)
                protected(q) == Abs(q - currentPage) <= KeepRadius
            IN /\ Cardinality(E) <= 1
               /\ \A q \in E : /\ Abs(q - c.page) > FarDist
                               /\ q \in far
                               /\ ~protected(q)
               /\ (\E q \in R : Abs(q - c.page) > FarDist)
                    => \/ Cardinality(E) = 1
                       \/ \E q \in far : protected(q)
               /\ (/\ \E q \in R : Abs(q - c.page) > FarDist
                   /\ \A q \in far : ~protected(q))
                    => Cardinality(E) = 1]_vars

\* C19 witness: a render was just scheduled with the budget full and the
\* guard evicted one page for it.
C19_GuardMadeRoom ==
    /\ lastEvict = "guard"
    /\ Cardinality(vs[liveVS].rendered) = maxBuffered - 1
    /\ \E c \in calls : /\ c.stage = "getPage"
                        /\ c.vs = liveVS
                        /\ c.page \notin vs[liveVS].rendered

C14_TransformPinned ==
    /\ minScale * ScaleUnit <= reader.scale
    /\ reader.scale <= maxScale * ScaleUnit
    /\ (reader.scale <= ScaleUnit => reader.translateX = 0 /\ reader.translateY = 0)

\* C16: a page change leaves exactly one save timeout pending, SAVE_MS ahead
\* and for the new page; saveProgress is called at most once in a step, either
\* by that timeout when it is due, with the page of the last page change, or
\* by close, which leaves no save timeout behind and saves the reader's
\* current page; nothing is saved after close
C16_DebouncedSave ==
    [][/\ Len(reader'.saveTimers) <= 1
       /\ (reader'.saveTimers # reader.saveTimers /\ reader'.saveTimers # <<>>
             /\ reader'.saveTimers[1].left = SAVE_MS)
            => reader'.saveTimers = <<[left |-> SAVE_MS, page |-> reader'.currentPage]>>
       /\ reader'.currentPage # reader.currentPage
            => reader'.saveTimers = <<[left |-> SAVE_MS, page |-> reader'.currentPage]>>
       /\ (~closed /\ closed')
            => /\ reader'.saves = <<reader.currentPage>>
               /\ reader'.saveTimers = <<>>
       /\ (reader'.saves # <<>> /\ closed' = closed)
            => /\ ~closed
               /\ reader.saveTimers # <<>>
               /\ reader.saveTimers[1].left = 0
               /\ reader'.saves = <<reader.saveTimers[1].page>>
               /\ reader'.saves = <<reader.currentPage>>
               /\ reader'.saveTimers = <<>>
       /\ closed => reader'.saves = <<>> /\ reader'.saveTimers = <<>>
      ]_vars

\* the save timeout of a burst that ended on another page than the first has
\* just run
C16_BurstSaved ==
    /\ ~closed
    /\ reader.saves = <<reader.currentPage>>
    /\ reader.currentPage # 1
    /\ reader.saveTimers = <<>>

(* ---------------------------------------------------------------------- *)
(* Claims about the gesture engine: long press, momentum, destroy          *)
(* ---------------------------------------------------------------------- *)

C22_MomentumStopsOnDown ==
    [][now' = now =>
        /\ lastEvent'.type \in {"down", "cancel"}
             => ~engine'.frame.due /\ "onPan" \notin Names(emitted')
        /\ (~engine.frame.due /\ engine'.frame.due)
             => /\ lastEvent'.type = "up"
                /\ envDown # {} /\ envDown' = {}
                /\ ~engine.longPressFired
                /\ lastEvent'.dx > TapSlop \/ lastEvent'.dy > TapSlop
                /\ engine.panVelX * engine.panVelX + engine.panVelY * engine.panVelY
                     > MinSpeed * MinSpeed
        /\ (\E i \in DOMAIN emitted' :
                emitted'[i].cb = "onPan" /\ emitted'[i].args[3] = FALSE)
             => /\ lastEvent'.type = "frame"
                /\ engine.frame.due
                /\ DOMAIN engine.pointers = {}
        /\ engine'.frame.due => DOMAIN engine'.pointers = {} /\ envDown' = {}
      ]_vars

\* a pointerdown has just stopped a running momentum sequence
C22_DownStoppedMomentum ==
    /\ hist.stopped
    /\ lastEvent.type = "down"
    /\ ~engine.frame.due
    /\ ~engine.momentumRafId

\* C30: after destroy() the engine emits no callback in response to a
\* pointer event
C30_DestroyedEngineSilent ==
    [][(/\ hist.destroyed
        /\ now' = now
        /\ lastEvent'.type \in {"down", "move", "up", "cancel"})
       => emitted' = <<>>]_vars

\* C23: a move of a known contact emits exactly one onPan(dx, dy, true), with
\* the deltas from the last pan position, while one contact is active
\* (whatever the long-press timer and fired flag); exactly one onPinch while
\* two are active; nothing while more than two are active; onPinch is emitted
\* by nothing else
C23_MoveByContactCount ==
    [][now' = now =>
        /\ lastEvent'.type = "move"
             => LET n == Cardinality(envDown) IN
                /\ n = 1 => emitted' = <<[cb |-> "onPan",
                                          args |-> <<lastEvent'.x - engine.lastPanX,
                                                     lastEvent'.y - engine.lastPanY,
                                                     TRUE>>]>>
                /\ n = 2 => emitted' = <<[cb |-> "onPinch", args |-> <<>>]>>
                /\ n > 2 => emitted' = <<>>
        /\ "onPinch" \in Names(emitted')
             => lastEvent'.type = "move" /\ Cardinality(envDown) = 2
      ]_vars

\* a third contact is down and one of the three has just moved
C23_ThreeContactMove ==
    /\ Cardinality(envDown) = 3
    /\ DOMAIN engine.pointers = envDown
    /\ lastEvent.type = "move"
    /\ emitted = <<>>

(* ---------------------------------------------------------------------- *)
(* Claims about the reader's zoom, pan and chrome                          *)
(* ---------------------------------------------------------------------- *)
\* C24: in horizontal mode at scale <= 1.05, onPanEnd goes to the next page
\* when translateX lies more than a fifth of the viewport width beyond the
\* current page's resting offset in the forward direction, to the previous
\* page when more than a fifth in the backward direction, and back to the
\* current page otherwise; the destination stays within 1..totalPages (at the
\* last or the first page it is the current page) and translateX becomes
\* -(destination - 1) * vw
C24_SnapToPage ==
    [][(reader'.cbk = "onPanEnd" /\ mode = "horizontal" /\ reader.scale <= ZOOMED)
        => LET vw   == ViewW * TransUnit
               page == reader.currentPage
               rest == -(page - 1) * vw
               dest == IF 5 * (rest - reader.translateX) > vw
                       THEN clamp(page + 1, 1, totalPages)
                       ELSE IF 5 * (reader.translateX - rest) > vw
                       THEN clamp(page - 1, 1, totalPages)
                       ELSE page
           IN /\ dest \in 1..totalPages
              /\ reader'.translateX = -(dest - 1) * vw
      ]_vars

\* a pan end has just carried the strip from page 2 to page 3
C24_TurnedForward ==
    /\ mode = "horizontal"
    /\ reader.cbk = "onPanEnd"
    /\ reader.scale <= ZOOMED
    /\ reader.currentPage = 2
    /\ reader.translateX = -2 * ViewW * TransUnit

\* C25: a tap toggles the chrome; every gesture callback (tap, double tap,
\* pan, pinch) restarts the UI_HIDE_MS timer; the timer hides visible chrome
\* only when UI_HIDE_MS have passed since the last gesture callback
C25_ChromeHiddenWhenIdle ==
    [][/\ reader'.cbk = "onTap" => reader'.uiVisible = ~reader.uiVisible
       /\ reader'.cbk \in {"onTap", "onDoubleTap", "onPan", "onPinch"}
            => reader'.uiTimer = UI_HIDE_MS
       /\ (reader'.cbk = "uiTimeout" /\ reader.uiVisible /\ ~reader'.uiVisible)
            => reader.idle >= UI_HIDE_MS
      ]_vars

\* C26: onPinchEnd at a scale below 1.05 sets scale 1 and translate (0,0);
\* after every onPinchEnd the scale is 1 or at least 1.05
C26_PinchEndSnaps ==
    [][reader'.cbk = "onPinchEnd"
        => /\ reader.scale < ZOOMED
                => /\ reader'.scale = ScaleUnit
                   /\ reader'.translateX = 0
                   /\ reader'.translateY = 0
           /\ reader'.scale = ScaleUnit \/ reader'.scale >= ZOOMED
      ]_vars

\* a pinch has just ended at scale 1 on a page other than the first
C26_PinchEndedAtOne ==
    /\ reader.cbk = "onPinchEnd"
    /\ reader.scale = ScaleUnit
    /\ reader.translateX = 0
    /\ reader.translateY = 0
    /\ reader.currentPage > 1

\* C27: onDoubleTap sets the scale to 1 when it was above 1.05 and to 2.5
\* otherwise; a double tap that follows a double tap which zoomed in leaves
\* scale 1 and translate (0,0)
C27_DoubleTapToggles ==
    [][reader'.cbk = "onDoubleTap"
        => /\ reader'.scale = IF reader.scale > ZOOMED THEN ScaleUnit
                              ELSE DOUBLE_TAP_SCALE
           /\ (reader.cbk = "onDoubleTap" /\ reader.scale = DOUBLE_TAP_SCALE)
                => /\ reader'.scale = ScaleUnit
                   /\ reader'.translateX = 0
                   /\ reader'.translateY = 0
      ]_vars

\* a double tap has just zoomed in off the centre of the viewport
C27_ZoomedInOffCentre ==
    /\ reader.cbk = "onDoubleTap"
    /\ reader.scale = DOUBLE_TAP_SCALE
    /\ reader.translateX # 0

\* C28: in vertical mode, whenever the scale is above 1,
\* |translateX| <= (scale - 1) * vw / 2 and |translateY| <= (scale - 1) * vh / 2
C28_PanWithinBounds ==
    (mode = "vertical" /\ reader.scale > ScaleUnit)
        => /\ Abs(reader.translateX) * 2 * ScaleUnit
                <= (reader.scale - ScaleUnit) * ViewW * TransUnit
           /\ Abs(reader.translateY) * 2 * ScaleUnit
                <= (reader.scale - ScaleUnit) * ViewH * TransUnit

\* a pan in vertical mode has just been stopped at the lower bound of translateY
C28_PanClamped ==
    /\ mode = "vertical"
    /\ reader.cbk = "onPan"
    /\ reader.scale = DOUBLE_TAP_SCALE
    /\ reader.translateY * 2 * ScaleUnit
          = -((reader.scale - ScaleUnit) * ViewH * TransUnit)

(* ---------------------------------------------------------------------- *)
(* Claims about opening a document                                         *)
(* ---------------------------------------------------------------------- *)
\* the VirtualScroll objects of the session that are mounted (made and not
\* destroyed)
MountedVS == IF reader.laidOut /\ ~vs[liveVS].destroyed THEN {liveVS} ELSE {}

\* C29: once open() has failed (no blob, or load rejected) the session is
\* closed and the failure reported, and nothing of the session is left: no
\* mounted VirtualScroll, no render call outstanding, no reader timeout pending
C29_FailedOpenLeavesNothing ==
    reader.stage = "failed"
        => /\ closed
           /\ reader.toast
           /\ MountedVS = {}
           /\ calls = {}
           /\ reader.uiTimer = -1
           /\ reader.saveTimers = <<>>
           /\ reader.restoreTimers = {}
           /\ reader.anim = {}

(* ---------------------------------------------------------------------- *)
(* Claims about the end of a pinch                                         *)
(* ---------------------------------------------------------------------- *)
\* C37: whenever a pointerup or pointercancel takes the active contacts from
\* two to one, onPinchEnd is emitted and the pan reference becomes the
\* remaining contact's position
C37_PinchEndsOnDrop ==
    [][(/\ now' = now
        /\ lastEvent'.type \in {"up", "cancel"}
        /\ Cardinality(DOMAIN engine.pointers) = 2
        /\ Cardinality(DOMAIN engine'.pointers) = 1)
        => LET remainingPt == engine'.pointers[CHOOSE i \in DOMAIN engine'.pointers : TRUE]
           IN /\ "onPinchEnd" \in Names(emitted')
              /\ engine'.lastPanX = remainingPt.x
              /\ engine'.lastPanY = remainingPt.y
      ]_vars

(* ---------------------------------------------------------------------- *)
(* Claims about the slots of the container                                 *)
(* ---------------------------------------------------------------------- *)
\* C34: every page in the rendered set has its canvas in its slot
C34_RenderedHasCanvas ==
    \A p \in vs[liveVS].rendered : p \in reader.canvas

\* C35 (its safety part): a rendered page whose slot intersects and goes on
\* intersecting stays rendered; the memory guard of _renderSlot evicts no
\* page whose slot intersects
C35_VisibleStaysRendered ==
    [][/\ \A p \in Pages :
            (p \in reader.visible /\ p \in reader'.visible /\ p \in vs[liveVS].rendered)
                => p \in vs'[liveVS].rendered
       /\ lastEvict' = "guard"
            => (vs[liveVS].rendered \ vs'[liveVS].rendered) \cap reader.visible = {}
      ]_vars

(* ---------------------------------------------------------------------- *)
(* Claims about sessions that follow one another                           *)
(* ---------------------------------------------------------------------- *)
\* C33: every saveProgress call made for a document that was loaded and laid
\* out carries a page within 1..totalPages of that document, the current page
\* of that document's own VirtualScroll
C33_SavedPageOfSession ==
    [][(reader.stage = "open" /\ reader'.saves # <<>>)
          => \A i \in DOMAIN reader'.saves :
                /\ reader'.saves[i] \in 1..totalPages
                /\ reader'.saves[i] = currentPage
      ]_vars

\* C36: when close() ran while open() was suspended and open() has returned,
\* no VirtualScroll of that open is mounted and no render call is outstanding
C36_ClosedWhileOpening ==
    (reader.closedAt # "none" /\ reader.stage = "open")
        => /\ MountedVS = {}
           /\ calls = {}

(* ---------------------------------------------------------------------- *)
(* Claims about the page shown after a zoom gesture                        *)
(* ---------------------------------------------------------------------- *)
\* C32: in horizontal mode a pinch or a double-tap cycle that began on the
\* resting page p, with no page report since, and ends at scale 1 leaves
\* translateX at -(p-1) * viewport width, at its last callback and at the
\* onPanEnd of the release that follows
C32_ZoomKeepsPage ==
    [][(/\ reader.zoomFrom # 0
        /\ reader'.cbk \in {"onPinchEnd", "onDoubleTap", "onPanEnd"}
        /\ reader'.scale = ScaleUnit)
          => reader'.translateX = -(reader.zoomFrom - 1) * ViewW * TransUnit
      ]_vars

(* ---------------------------------------------------------------------- *)
(* Claims about the resting position of the horizontal view                *)
(* ---------------------------------------------------------------------- *)
\* C31: in horizontal mode at scale 1, with no contact active and no momentum
\* sequence running, translateX is -(k-1) * viewport width for a page k of
\* the document
C31_RestsOnPage ==
    (/\ mode = "horizontal"
     /\ reader.scale = ScaleUnit
     /\ DOMAIN engine.pointers = {}
     /\ ~engine.frame.due)
       => \E k \in 1..totalPages :
             reader.translateX = -(k - 1) * ViewW * TransUnit

====
